---- MODULE Spec2Model ----
(***************************************************************************)
(* Mount-Maker: the mount geometry calculator of src/App.tsx and the       *)
(* handlers that change the MountConfig it is computed from.               *)
(*                                                                         *)
(* Numbers.  A JavaScript number is modelled as an exact decimal           *)
(* fixed-point value: the integer n stands for n / Scale, so 1 mm is       *)
(* Scale units and 0.001 inch = 0.0254 mm is 508 units.  Every value the   *)
(* model stores is an even count of units, which makes the halving of the  *)
(* centering formulas exact.  Binary floating-point rounding (the last     *)
(* unit of a double) is outside the model.                                 *)
(***************************************************************************)
EXTENDS Integers, Sequences, FiniteSets, TLC

VARIABLES
    config,            \* App state: the MountConfig (src/App.tsx:68)
    unit,              \* App state: the display unit (src/App.tsx:65)
    apertureSize,      \* useMemo result (src/App.tsx:95)
    boardSize,         \* useMemo result (src/App.tsx:101)
    aperturePosition,  \* useMemo result (src/App.tsx:101)
    phase,             \* position of the render: "config", "aperture", "rendered"
    edits,             \* number of dimension edits so far (bounded by MaxEdits)
    advisor,           \* AIAdvisor state: description, loading, advice, error
    request            \* the promise handleAskAI awaits: its state and its error

advisorVars == <<advisor, request>>

vars == <<config, unit, apertureSize, boardSize, aperturePosition, phase, edits,
          advisor, request>>

----------------------------------------------------------------------------
(* Fixed-point numbers *)

Scale == 2 * 10000

\* The decimal literal n/d, d a divisor of 10000.
Dec(n, d) == n * (Scale \div d)

\* a * b for two fixed-point numbers, without leaving 32 bits.
Mul(a, b) ==
    LET aq == a \div Scale
        ar == a % Scale
        bq == b \div Scale
        br == b % Scale
    IN  aq * bq * Scale + aq * br + ar * bq + (ar * br) \div Scale

\* a / b for two fixed-point numbers, rounded down to the unit, without
\* leaving 32 bits.
RECURSIVE GCD(_, _)
GCD(a, b) == IF b = 0 THEN a ELSE GCD(b, a % b)

Div(a, b) ==
    LET g == GCD(Scale, b)
    IN  (a * (Scale \div g)) \div (b \div g)

\* Number.prototype.toFixed(precision) read back by parseFloat: the nearest
\* multiple of 10^-precision.
toFixed(val, precision) ==
    LET step == IF precision = 0 THEN Scale
                ELSE IF precision = 1 THEN Scale \div 10
                ELSE IF precision = 2 THEN Scale \div 100
                ELSE Scale \div 1000
    IN  ((2 * val + step) \div (2 * step)) * step

\* Math.max / Math.min
Max(a, b) == IF a >= b THEN a ELSE b
Min(a, b) == IF a <= b THEN a ELSE b

----------------------------------------------------------------------------
(* src/constants.ts *)

MM_PER_INCH == Dec(254, 10)

PAPER_SIZES == <<
    [name |-> "A0",      width |-> Dec(841, 1),   height |-> Dec(1189, 1)],
    [name |-> "A1",      width |-> Dec(594, 1),   height |-> Dec(841, 1)],
    [name |-> "A2",      width |-> Dec(420, 1),   height |-> Dec(594, 1)],
    [name |-> "A3",      width |-> Dec(297, 1),   height |-> Dec(420, 1)],
    [name |-> "A4",      width |-> Dec(210, 1),   height |-> Dec(297, 1)],
    [name |-> "A5",      width |-> Dec(148, 1),   height |-> Dec(210, 1)],
    [name |-> "Letter",  width |-> Dec(2159, 10), height |-> Dec(2794, 10)],
    [name |-> "Legal",   width |-> Dec(2159, 10), height |-> Dec(3556, 10)],
    [name |-> "Tabloid", width |-> Dec(2794, 10), height |-> Dec(4318, 10)] >>

\* The names of the inch sizes are written without their closing inch mark.
COMMON_PHOTO_SIZES == <<
    [name |-> "4x6",   width |-> Dec(1016, 10), height |-> Dec(1524, 10)],
    [name |-> "5x7",   width |-> Dec(127, 1),   height |-> Dec(1778, 10)],
    [name |-> "8x10",  width |-> Dec(2032, 10), height |-> Dec(254, 1)],
    [name |-> "11x14", width |-> Dec(2794, 10), height |-> Dec(3556, 10)],
    [name |-> "12x16", width |-> Dec(3048, 10), height |-> Dec(4064, 10)],
    [name |-> "16x20", width |-> Dec(4064, 10), height |-> Dec(508, 1)],
    [name |-> "A4",    width |-> Dec(210, 1),   height |-> Dec(297, 1)],
    [name |-> "A3",    width |-> Dec(297, 1),   height |-> Dec(420, 1)] >>

\* Array.prototype.find on a table of named sizes: the first record with the
\* name, or NotFound (undefined).
NotFound == [name |-> "undefined"]

Find(table, name) ==
    LET hits == {i \in 1..Len(table) : table[i].name = name}
    IN  IF hits = {} THEN NotFound
        ELSE table[CHOOSE i \in hits : \A j \in hits : i <= j]

Names(table) == {table[i].name : i \in 1..Len(table)}

----------------------------------------------------------------------------
(* src/App.tsx: the state after construction *)

DefaultConfig ==
    [ photoWidth      |-> Dec(2032, 10),
      photoHeight     |-> Dec(254, 1),
      photoBorder     |-> Dec(635, 100),
      underlap        |-> Dec(127, 10),
      mountOffset     |-> Dec(762, 100),
      minBorderWidth  |-> Dec(508, 10),
      boardPreset     |-> "A2",
      customBoardSize |-> [width |-> Dec(420, 1), height |-> Dec(594, 1)],
      mode            |-> "FixedBoard",
      manualBorders   |-> [top |-> Dec(50, 1), bottom |-> Dec(50, 1),
                           left |-> Dec(50, 1), right |-> Dec(50, 1)],
      orientation     |-> "portrait" ]

DefaultUnit == "inch"

----------------------------------------------------------------------------
(* src/App.tsx: the calculations *)

\* Mutations of the aperture: the border added once; the height taken from
\* the width.
ComputeApertureSize_OneBorder(c) ==
    [ width  |-> c.photoWidth + c.photoBorder,
      height |-> c.photoHeight + c.photoBorder ]

ComputeApertureSize_WidthTwice(c) ==
    [ width  |-> c.photoWidth + (c.photoBorder * 2),
      height |-> c.photoWidth + (c.photoBorder * 2) ]

\* Step 1: the aperture (lines 95-98).
ComputeApertureSize(c) ==
    [ width  |-> c.photoWidth + (c.photoBorder * 2),
      height |-> c.photoHeight + (c.photoBorder * 2) ]

\* Mutation: an unknown preset falls back to the custom board.
PresetDims_CustomFallback(c, table) ==
    LET preset == Find(table, c.boardPreset)
    IN  [ pW |-> IF preset # NotFound THEN preset.width ELSE c.customBoardSize.width,
          pH |-> IF preset # NotFound THEN preset.height ELSE c.customBoardSize.height ]

\* The preset record's dimensions, or the A2 default when the name is not in
\* the table (lines 113-116).
PresetDims(c, table) ==
    LET preset == Find(table, c.boardPreset)
    IN  [ pW |-> IF preset # NotFound THEN preset.width ELSE Dec(420, 1),
          pH |-> IF preset # NotFound THEN preset.height ELSE Dec(594, 1) ]

\* Mutation: the record is used as stored, whatever the orientation.
OrientPreset_AsStored(c, p) == [width |-> p.pW, height |-> p.pH]

\* The orientation rule for presets (lines 119-125).
OrientPreset(c, p) ==
    IF c.orientation = "landscape"
    THEN [width |-> Max(p.pW, p.pH), height |-> Min(p.pW, p.pH)]
    ELSE [width |-> Min(p.pW, p.pH), height |-> Max(p.pW, p.pH)]

\* Mutation: the orientation rule is applied to the custom board too.
FixedBoardSize_OrientCustom(c, table) ==
    IF c.boardPreset = "Custom"
    THEN OrientPreset(c, [pW |-> c.customBoardSize.width, pH |-> c.customBoardSize.height])
    ELSE OrientPreset(c, PresetDims(c, table))

\* The board of FixedBoard mode (lines 109-126).
FixedBoardSize(c, table) ==
    IF c.boardPreset = "Custom"
    THEN [width |-> c.customBoardSize.width, height |-> c.customBoardSize.height]
    ELSE OrientPreset(c, PresetDims(c, table))

\* Mutation: negative positions are clamped to 0.
CenterAperture_Clamped(c, board, aperture) ==
    LET totalMarginX == board.width - aperture.width
        totalMarginY == board.height - aperture.height
    IN  [ x |-> Max(0, totalMarginX \div 2),
          y |-> Max(0, (totalMarginY \div 2) - c.mountOffset) ]

\* Mutations of the centering: the vertical position taken from the horizontal
\* margin; the offset moving the aperture down.
CenterAperture_MarginX(c, board, aperture) ==
    LET totalMarginX == board.width - aperture.width
    IN  [ x |-> totalMarginX \div 2,
          y |-> (totalMarginX \div 2) - c.mountOffset ]

CenterAperture_OffsetDown(c, board, aperture) ==
    LET totalMarginX == board.width - aperture.width
        totalMarginY == board.height - aperture.height
    IN  [ x |-> totalMarginX \div 2,
          y |-> (totalMarginY \div 2) + c.mountOffset ]

\* The aperture position of FixedBoard mode (lines 128-137).
CenterAperture(c, board, aperture) ==
    LET totalMarginX == board.width - aperture.width
        totalMarginY == board.height - aperture.height
    IN  [ x |-> totalMarginX \div 2,
          y |-> (totalMarginY \div 2) - c.mountOffset ]

\* Mutation: the side borders are taken to be equal.
CustomBordersGeometry_Symmetric(c, aperture) ==
    LET top    == c.manualBorders.top
        bottom == c.manualBorders.bottom
        left   == c.manualBorders.left
    IN  [ boardSize |-> [ width  |-> aperture.width + left + left,
                          height |-> aperture.height + top + bottom ],
          aperturePosition |-> [x |-> left, y |-> top] ]

\* CustomBorders mode: the board grows around the aperture (lines 140-145).
CustomBordersGeometry(c, aperture) ==
    LET top    == c.manualBorders.top
        bottom == c.manualBorders.bottom
        left   == c.manualBorders.left
        right  == c.manualBorders.right
    IN  [ boardSize |-> [ width  |-> aperture.width + left + right,
                          height |-> aperture.height + top + bottom ],
          aperturePosition |-> [x |-> left, y |-> top] ]

\* Mutation: the mount offset is applied in CustomBorders mode as well.
ComputeBoardWith_OffsetInCustom(c, aperture, table) ==
    IF c.mode = "FixedBoard"
    THEN LET board == FixedBoardSize(c, table)
         IN  [ boardSize |-> board,
               aperturePosition |-> CenterAperture(c, board, aperture) ]
    ELSE LET g == CustomBordersGeometry(c, aperture)
         IN  [ boardSize |-> g.boardSize,
               aperturePosition |-> [ x |-> g.aperturePosition.x,
                                      y |-> g.aperturePosition.y - c.mountOffset ] ]

\* Step 2: board size and aperture position (lines 101-152), for a given
\* paper-size table.
ComputeBoardWith(c, aperture, table) ==
    IF c.mode = "FixedBoard"
    THEN LET board == FixedBoardSize(c, table)
         IN  [ boardSize |-> board,
               aperturePosition |-> CenterAperture(c, board, aperture) ]
    ELSE CustomBordersGeometry(c, aperture)

ComputeBoard(c, aperture) == ComputeBoardWith(c, aperture, PAPER_SIZES)

\* The values let-bound to 0 before the calculation runs (lines 102-105).
Zero2 == [width |-> 0, height |-> 0]
ZeroPos == [x |-> 0, y |-> 0]

----------------------------------------------------------------------------
(* src/unnamed/part_000 (AIAdvisor): the state after construction *)

Null == [null |-> TRUE]

\* useState(''), useState(false), useState(null), useState(null) (lines 13-16)
AdvisorInitial ==
    [description |-> "", loading |-> FALSE, advice |-> Null, error |-> Null]

\* No getMountAdvice call has been made.
NoRequest == [state |-> "none", error |-> ""]

----------------------------------------------------------------------------
(* The calculator as a pure function: inputs drawn from bounded sets *)

MaxOffsetSteps == 2
MaxBorderSteps == 1

GeomPhotoWidths == {Dec(2032, 10), Dec(254, 1), Dec(600, 1)}
GeomPhotoHeights == {Dec(254, 1), Dec(2032, 10)}
GeomPhotoBorders == {k * Dec(635, 100) : k \in 0..MaxBorderSteps}
GeomOffsets == {k * Dec(762, 100) : k \in 0..MaxOffsetSteps}
GeomPresets == Names(PAPER_SIZES) \cup {"Custom", "B5", "a4"}
GeomCustomBoards ==
    { [width |-> Dec(420, 1), height |-> Dec(594, 1)],
      [width |-> Dec(594, 1), height |-> Dec(420, 1)],
      [width |-> Dec(100, 1), height |-> Dec(150, 1)] }
GeomManualBorders ==
    { [top |-> Dec(50, 1), bottom |-> Dec(50, 1), left |-> Dec(50, 1), right |-> Dec(50, 1)],
      [top |-> Dec(50, 1), bottom |-> Dec(60, 1), left |-> Dec(45, 1), right |-> Dec(45, 1)],
      [top |-> 0, bottom |-> Dec(10, 1), left |-> Dec(205, 10), right |-> Dec(3, 1)] }
Modes == {"FixedBoard", "CustomBorders"}
Orientations == {"portrait", "landscape"}
Units == {"mm", "inch"}

GeomConfigs ==
    { [ DefaultConfig EXCEPT
          !.photoWidth = pw, !.photoHeight = ph, !.photoBorder = pb,
          !.mountOffset = mo, !.boardPreset = bp, !.customBoardSize = cb,
          !.mode = m, !.manualBorders = mb, !.orientation = o ] :
        pw \in GeomPhotoWidths, ph \in GeomPhotoHeights, pb \in GeomPhotoBorders,
        mo \in GeomOffsets, bp \in GeomPresets, cb \in GeomCustomBoards,
        m \in Modes, mb \in GeomManualBorders, o \in Orientations }

GeomInit ==
    /\ config \in GeomConfigs
    /\ unit = DefaultUnit
    /\ apertureSize = Zero2
    /\ boardSize = Zero2
    /\ aperturePosition = ZeroPos
    /\ phase = "config"
    /\ edits = 0
    /\ advisor = AdvisorInitial
    /\ request = NoRequest

\* The first useMemo runs.
RenderAperture ==
    /\ phase = "config"
    /\ apertureSize' = ComputeApertureSize(config)
    /\ phase' = "aperture"
    /\ UNCHANGED <<config, unit, boardSize, aperturePosition, edits>>
    /\ UNCHANGED advisorVars

\* The second useMemo runs, on the aperture the first one produced.
RenderBoard ==
    /\ phase = "aperture"
    /\ LET r == ComputeBoard(config, apertureSize)
       IN  /\ boardSize' = r.boardSize
           /\ aperturePosition' = r.aperturePosition
    /\ phase' = "rendered"
    /\ UNCHANGED <<config, unit, apertureSize, edits>>
    /\ UNCHANGED advisorVars

GeomNext == RenderAperture \/ RenderBoard

GeomSpec == GeomInit /\ [][GeomNext]_vars

----------------------------------------------------------------------------
(* src/App.tsx: the handlers *)

MaxEdits == 1

\* The texts a user leaves in an InputGroup, and parseFloat on them: a text
\* outside the domain of Parsed parses to NaN.
Parsed == ("0.3" :> Dec(3, 10)) @@ ("60" :> Dec(60, 1))
TypedTexts == DOMAIN Parsed \cup {"abc"}
isNaN(localValue) == localValue \notin DOMAIN Parsed
parseFloat(localValue) == Parsed[localValue]

\* Mutation: the board memo misses its dependencies and keeps its old value.
SetConfig_StaleBoard(c) ==
    /\ config' = c
    /\ apertureSize' = ComputeApertureSize(c)
    /\ boardSize' = boardSize
    /\ aperturePosition' = ComputeBoard(c, ComputeApertureSize(c)).aperturePosition
    /\ phase' = "rendered"

\* Both useMemos, as one render of the component (lines 95-152).
Render(c) ==
    LET aperture == ComputeApertureSize(c)
        r == ComputeBoard(c, aperture)
    IN  [ apertureSize |-> aperture,
          boardSize |-> r.boardSize,
          aperturePosition |-> r.aperturePosition ]

\* setConfig followed by the render it triggers.
SetConfig(c) ==
    /\ config' = c
    /\ LET r == Render(c)
       IN  /\ apertureSize' = r.apertureSize
           /\ boardSize' = r.boardSize
           /\ aperturePosition' = r.aperturePosition
    /\ phase' = "rendered"

\* fromDisplay (lines 85-87)
fromDisplay(u, val) == IF u = "inch" THEN Mul(val, MM_PER_INCH) ELSE val

\* toDisplay with its default precision of 3 (lines 90-93)
toDisplay(u, mm) ==
    LET val == IF u = "inch" THEN Div(mm, MM_PER_INCH) ELSE mm
    IN  toFixed(val, 3)

\* updateConfig (lines 157-159)
updateConfig(prev, key, value) == [prev EXCEPT ![key] = value]

\* Mutation: the custom board is not turned.
toggleOrientation_KeepCustomBoard(prev) ==
    [ prev EXCEPT !.orientation = IF @ = "portrait" THEN "landscape" ELSE "portrait",
                  !.photoWidth = prev.photoHeight,
                  !.photoHeight = prev.photoWidth ]

\* Mutation: the manual borders are turned with the photo.
toggleOrientation_TurnBorders(prev) ==
    [ prev EXCEPT !.orientation = IF @ = "portrait" THEN "landscape" ELSE "portrait",
                  !.photoWidth = prev.photoHeight,
                  !.photoHeight = prev.photoWidth,
                  !.customBoardSize = [width |-> @.height, height |-> @.width],
                  !.manualBorders = [top |-> @.left, bottom |-> @.right,
                                     left |-> @.top, right |-> @.bottom] ]

\* Mutation: the photo dimensions are swapped without a temporary, so the
\* height is overwritten before it is read.
toggleOrientation_NoTemp(prev) ==
    LET newOrientation == IF prev.orientation = "portrait" THEN "landscape" ELSE "portrait"
        newPhotoWidth == prev.photoHeight
        newPhotoHeight == newPhotoWidth
        newCustomBoard == [ width  |-> prev.customBoardSize.height,
                            height |-> prev.customBoardSize.width ]
    IN  [ prev EXCEPT !.orientation = newOrientation,
                      !.photoWidth = newPhotoWidth,
                      !.photoHeight = newPhotoHeight,
                      !.customBoardSize = newCustomBoard ]

\* The updater toggleOrientation hands to setConfig (lines 166-186).
toggleOrientation(prev) ==
    LET newOrientation == IF prev.orientation = "portrait" THEN "landscape" ELSE "portrait"
        newPhotoWidth == prev.photoHeight
        newPhotoHeight == prev.photoWidth
        newCustomBoard == [ width  |-> prev.customBoardSize.height,
                            height |-> prev.customBoardSize.width ]
    IN  [ prev EXCEPT !.orientation = newOrientation,
                      !.photoWidth = newPhotoWidth,
                      !.photoHeight = newPhotoHeight,
                      !.customBoardSize = newCustomBoard ]

\* Mutation: the preset is applied as listed, whatever the orientation.
selectPhotoPreset_AsListed(prev, name) ==
    LET s == Find(COMMON_PHOTO_SIZES, name)
    IN  IF s = NotFound THEN prev
        ELSE updateConfig(updateConfig(prev, "photoWidth", s.width), "photoHeight", s.height)

\* The photo preset select's onChange (lines 247-263).
selectPhotoPreset(prev, name) ==
    LET s == Find(COMMON_PHOTO_SIZES, name)
    IN  IF s = NotFound THEN prev
        ELSE LET swap == IF prev.orientation = "landscape"
                         THEN s.height > s.width
                         ELSE s.width > s.height
                 w == IF swap THEN s.height ELSE s.width
                 h == IF swap THEN s.width ELSE s.height
             IN  updateConfig(updateConfig(prev, "photoWidth", w), "photoHeight", h)

Init ==
    /\ config = DefaultConfig
    /\ unit = DefaultUnit
    /\ LET r == Render(DefaultConfig)
       IN  /\ apertureSize = r.apertureSize
           /\ boardSize = r.boardSize
           /\ aperturePosition = r.aperturePosition
    /\ phase = "rendered"
    /\ edits = 0
    /\ advisor = AdvisorInitial
    /\ request = NoRequest

\* The Rotate Orientation button (line 204).
ToggleOrientation ==
    /\ phase = "rendered"
    /\ SetConfig(toggleOrientation(config))
    /\ UNCHANGED <<unit, edits>>
    /\ UNCHANGED advisorVars

\* Mutation: switching the unit converts the stored photo width.
SetUnit_Converting ==
    /\ phase = "rendered"
    /\ \E u \in Units :
          /\ unit' = u
          /\ IF u = unit
             THEN UNCHANGED <<config, apertureSize, boardSize, aperturePosition, phase>>
             ELSE SetConfig([config EXCEPT !.photoWidth =
                     IF u = "inch" THEN Div(@, MM_PER_INCH) ELSE Mul(@, MM_PER_INCH)])
    /\ UNCHANGED edits
    /\ UNCHANGED advisorVars

\* The MM / IN buttons (lines 214, 220).
SetUnit ==
    /\ phase = "rendered"
    /\ \E u \in Units : unit' = u
    /\ UNCHANGED <<config, apertureSize, boardSize, aperturePosition, phase, edits>>
    /\ UNCHANGED advisorVars

\* The Fit to Board / Set Borders buttons (lines 297, 303).
SetMode ==
    /\ phase = "rendered"
    /\ \E m \in Modes : SetConfig(updateConfig(config, "mode", m))
    /\ UNCHANGED <<unit, edits>>
    /\ UNCHANGED advisorVars

\* The Board Size select, rendered in FixedBoard mode (lines 315-336).
SelectBoardPreset ==
    /\ phase = "rendered"
    /\ config.mode = "FixedBoard"
    /\ \E name \in Names(PAPER_SIZES) \cup {"Custom"} :
          SetConfig(updateConfig(config, "boardPreset", name))
    /\ UNCHANGED <<unit, edits>>
    /\ UNCHANGED advisorVars

\* The Preset Size select; "" is its Custom entry (lines 246-268).
SelectPhotoPreset ==
    /\ phase = "rendered"
    /\ edits < MaxEdits
    /\ \E name \in Names(COMMON_PHOTO_SIZES) \cup {""} :
          /\ SetConfig(selectPhotoPreset(config, name))
          /\ edits' = IF name = "" THEN edits ELSE edits + 1
    /\ UNCHANGED unit
    /\ UNCHANGED advisorVars

\* InputGroup.handleBlur (lines 26-33) on an input wired to
\* updateConfigFromInput (lines 161-163).  The Vertical Offset input is
\* rendered in FixedBoard mode only (lines 346-351).
CommitField ==
    /\ phase = "rendered"
    /\ edits < MaxEdits
    /\ \E key \in {"photoWidth", "photoHeight", "photoBorder", "underlap", "mountOffset"},
          localValue \in TypedTexts :
          /\ key = "mountOffset" => config.mode = "FixedBoard"
          /\ IF ~isNaN(localValue)
             THEN /\ SetConfig(updateConfig(config, key, fromDisplay(unit, parseFloat(localValue))))
                  /\ edits' = edits + 1
             ELSE UNCHANGED <<config, apertureSize, boardSize, aperturePosition, phase, edits>>
    /\ UNCHANGED unit
    /\ UNCHANGED advisorVars

\* The Board Width / Board Height inputs, rendered when the preset is Custom
\* (lines 338-343).
CommitCustomBoard ==
    /\ phase = "rendered"
    /\ edits < MaxEdits
    /\ config.mode = "FixedBoard"
    /\ config.boardPreset = "Custom"
    /\ \E dim \in {"width", "height"}, localValue \in TypedTexts :
          IF ~isNaN(localValue)
          THEN /\ SetConfig(updateConfig(config, "customBoardSize",
                    [config.customBoardSize EXCEPT ![dim] = fromDisplay(unit, parseFloat(localValue))]))
               /\ edits' = edits + 1
          ELSE UNCHANGED <<config, apertureSize, boardSize, aperturePosition, phase, edits>>
    /\ UNCHANGED unit
    /\ UNCHANGED advisorVars

\* The Top / Bottom / Left / Right inputs of CustomBorders mode (lines 369-372).
CommitManualBorder ==
    /\ phase = "rendered"
    /\ edits < MaxEdits
    /\ config.mode = "CustomBorders"
    /\ \E side \in {"top", "bottom", "left", "right"}, localValue \in TypedTexts :
          IF ~isNaN(localValue)
          THEN /\ SetConfig(updateConfig(config, "manualBorders",
                    [config.manualBorders EXCEPT ![side] = fromDisplay(unit, parseFloat(localValue))]))
               /\ edits' = edits + 1
          ELSE UNCHANGED <<config, apertureSize, boardSize, aperturePosition, phase, edits>>
    /\ UNCHANGED unit
    /\ UNCHANGED advisorVars

\* The InputGroups on screen (lines 272-279, 338-351, 369-372): the config
\* field each shows, as a path into the config.
InputFields ==
    { <<"photoWidth">>, <<"photoHeight">>, <<"photoBorder">>, <<"underlap">>,
      <<"mountOffset">>,
      <<"customBoardSize", "width">>, <<"customBoardSize", "height">>,
      <<"manualBorders", "top">>, <<"manualBorders", "bottom">>,
      <<"manualBorders", "left">>, <<"manualBorders", "right">> }

\* Whether the field's InputGroup is rendered (lines 311, 338, 365).
Shown(c, f) ==
    CASE f[1] = "mountOffset"     -> c.mode = "FixedBoard"
      [] f[1] = "customBoardSize" -> c.mode = "FixedBoard" /\ c.boardPreset = "Custom"
      [] f[1] = "manualBorders"   -> c.mode = "CustomBorders"
      [] OTHER                    -> TRUE

FieldValue(c, f) == IF Len(f) = 1 THEN c[f[1]] ELSE c[f[1]][f[2]]

\* The onCommit of the field's InputGroup, as a function of the config.
commitField(c, u, f, floatVal) ==
    IF Len(f) = 1
    THEN updateConfig(c, f[1], fromDisplay(u, floatVal))
    ELSE updateConfig(c, f[1], [c[f[1]] EXCEPT ![f[2]] = fromDisplay(u, floatVal)])

\* InputGroup.handleBlur (lines 26-33) on a field whose text was not edited:
\* localValue is still value.toString() (lines 19-24), value being
\* toDisplay(stored value), and parseFloat reads that number back.
BlurUnedited ==
    /\ phase = "rendered"
    /\ edits < MaxEdits
    /\ \E f \in InputFields :
          /\ Shown(config, f)
          /\ LET value == toDisplay(unit, FieldValue(config, f))
                 floatVal == value
             IN  SetConfig(commitField(config, unit, f, floatVal))
    /\ edits' = edits + 1
    /\ UNCHANGED unit
    /\ UNCHANGED advisorVars

Next ==
    \/ ToggleOrientation
    \/ SetUnit
    \/ SetMode
    \/ SelectBoardPreset
    \/ SelectPhotoPreset
    \/ CommitField
    \/ CommitCustomBoard
    \/ CommitManualBorder
    \/ BlurUnedited

Spec == Init /\ [][Next]_vars

----------------------------------------------------------------------------
(* src/services/geminiService.ts and src/unnamed/part_000: the advisor *)

Undefined == [undefined |-> TRUE]

\* What the user writes into the description input; " " is truthy but trims
\* to nothing.
Descriptions == {"", " ", "B&W portrait"}
Trim(text) == IF text = " " THEN "" ELSE text

\* process.env.API_KEY is set or not (geminiService.ts line 5).
ApiKeys == BOOLEAN

\* The suggestedValues a model answer can carry, in the display unit.
SuggestedValues ==
    { [ photoBorder |-> Dec(25, 100), mountOffset |-> Dec(3, 10),
        topBorder |-> Dec(2, 1), bottomBorder |-> Dec(25, 10), sideBorder |-> Dec(2, 1) ],
      [ photoBorder |-> Dec(5, 1), mountOffset |-> 0,
        topBorder |-> Dec(60, 1), bottomBorder |-> Dec(75, 1), sideBorder |-> Dec(55, 1) ] }

\* What ai.models.generateContent can do: reject, or resolve with a text that
\* is empty, is not JSON, or is a JSON object with or without suggestedValues.
Responses ==
    { [status |-> "rejected", text |-> [kind |-> "empty"]],
      [status |-> "resolved", text |-> [kind |-> "empty"]],
      [status |-> "resolved", text |-> [kind |-> "malformed"]],
      [status |-> "resolved",
       text |-> [kind |-> "json",
                 value |-> [suggestion |-> "Wide mat", reasoning |-> "Balance",
                            suggestedValues |-> Undefined]]] }
    \cup
    { [status |-> "resolved",
       text |-> [kind |-> "json",
                 value |-> [suggestion |-> "Weighted bottom", reasoning |-> "Balance",
                            suggestedValues |-> v]]] : v \in SuggestedValues }

Throw(message) == [threw |-> TRUE, error |-> message, value |-> Null]
Return(value) == [threw |-> FALSE, error |-> "", value |-> value]

\* getClient (geminiService.ts lines 4-10)
getClient(apiKey) ==
    IF ~apiKey THEN Throw("API Key not found") ELSE Return("client")

\* getMountAdvice (geminiService.ts lines 12-90): the promise's outcome for an
\* API key and a response.  Every error caught at line 86 is thrown again.
getMountAdvice(description, currentConfig, u, apiKey, response) ==
    IF getClient(apiKey).threw THEN getClient(apiKey)
    ELSE IF response.status = "rejected" THEN Throw("request failed")
    ELSE IF response.text.kind = "malformed" THEN Throw("SyntaxError")
    ELSE LET result == IF response.text.kind = "empty"
                       THEN [suggestion |-> Undefined, reasoning |-> Undefined,
                             suggestedValues |-> Undefined]
                       ELSE response.text.value
         IN  IF result.suggestedValues = Undefined
             THEN Throw("Invalid response from AI")
             ELSE Return(
                    [ suggestion |-> result.suggestion,
                      reasoning |-> result.reasoning,
                      suggestedConfig |->
                         [ photoBorder |-> result.suggestedValues.photoBorder,
                           mountOffset |-> result.suggestedValues.mountOffset,
                           manualBorders |->
                              [ top |-> result.suggestedValues.topBorder,
                                bottom |-> result.suggestedValues.bottomBorder,
                                left |-> result.suggestedValues.sideBorder,
                                right |-> result.suggestedValues.sideBorder ],
                           mode |-> "CustomBorders" ] ])

\* The string handed to setError, as a record so that it compares with Null.
FailureNotice == [text |-> "Failed to get advice. Ensure API key is set."]

\* handleAskAI up to its await (part_000 lines 19-23).
handleAskAIStart(adv) == [adv EXCEPT !.loading = TRUE, !.error = Null]

\* Mutation: setLoading(false) sits at the end of the try block, not in a
\* finally.
handleAskAISettle_NoFinally(adv, outcome) ==
    IF outcome.threw
    THEN [adv EXCEPT !.error = FailureNotice]
    ELSE [adv EXCEPT !.advice = outcome.value, !.loading = FALSE]

\* handleAskAI after its await (part_000 lines 23-29).
handleAskAISettle(adv, outcome) ==
    LET tried == IF outcome.threw
                 THEN [adv EXCEPT !.error = FailureNotice]
                 ELSE [adv EXCEPT !.advice = outcome.value]
    IN  [tried EXCEPT !.loading = FALSE]

\* The host's onApplySuggestion.  App.tsx defines no such handler and does not
\* render AIAdvisor (lines 155-187 are all of its handlers), so no setConfig
\* is reached from the Apply Suggested Dimensions button.
onApplySuggestion(prev, suggestedConfig) == prev

\* The description input (part_000 lines 40-46).
SetDescription ==
    /\ phase = "rendered"
    /\ \E d \in Descriptions : advisor' = [advisor EXCEPT !.description = d]
    /\ UNCHANGED <<config, unit, apertureSize, boardSize, aperturePosition, phase,
                   edits, request>>

\* The Ask button, enabled when not loading and the description is not empty
\* (part_000 lines 47-53), running handleAskAI up to its await.
AskAI ==
    /\ phase = "rendered"
    /\ ~advisor.loading
    /\ advisor.description # ""
    /\ IF Trim(advisor.description) = ""
       THEN UNCHANGED advisorVars
       ELSE /\ advisor' = handleAskAIStart(advisor)
            /\ request' = [state |-> "pending", error |-> ""]
    /\ UNCHANGED <<config, unit, apertureSize, boardSize, aperturePosition, phase, edits>>

\* The promise settles and handleAskAI resumes.
SettleAdvice ==
    /\ phase = "rendered"
    /\ request.state = "pending"
    /\ \E apiKey \in ApiKeys, response \in Responses :
          LET outcome == getMountAdvice(advisor.description, config, unit, apiKey, response)
          IN  /\ advisor' = handleAskAISettle(advisor, outcome)
              /\ request' = IF outcome.threw
                            THEN [state |-> "rejected", error |-> outcome.error]
                            ELSE [state |-> "fulfilled", error |-> ""]
    /\ UNCHANGED <<config, unit, apertureSize, boardSize, aperturePosition, phase, edits>>

\* The Apply Suggested Dimensions button (part_000 lines 67-74).
ApplySuggestion ==
    /\ phase = "rendered"
    /\ advisor.advice # Null
    /\ advisor.advice.suggestedConfig # Undefined
    /\ SetConfig(onApplySuggestion(config, advisor.advice.suggestedConfig))
    /\ UNCHANGED <<unit, edits, advisorVars>>

\* AIAdvisor mounted on the App's config and unit, next to the handlers that
\* change them without typing.
AdvisorNext ==
    \/ SetDescription
    \/ AskAI
    \/ SettleAdvice
    \/ ApplySuggestion
    \/ ToggleOrientation
    \/ SetMode
    \/ SetUnit

AdvisorSpec == Init /\ [][AdvisorNext]_vars

----------------------------------------------------------------------------
(* Properties of the calculator (checked under GeomSpec) *)

\* The margins the Resulting Borders panel shows (lines 359-360).
TopMargin == aperturePosition.y
BottomMargin == boardSize.height - aperturePosition.y - apertureSize.height

GeomUnderlaps == {0, Dec(127, 10), Dec(254, 10)}

IsPreset(name) == name \in Names(PAPER_SIZES)

\* C1: for non-negative photoWidth, photoHeight and photoBorder the aperture
\* is photo + 2 * photoBorder on each axis, in either mode, and changing mode,
\* orientation, boardPreset, customBoardSize, manualBorders, mountOffset or
\* underlap does not change it.
C1_ApertureSize ==
    (/\ phase # "config"
     /\ config.photoWidth >= 0 /\ config.photoHeight >= 0 /\ config.photoBorder >= 0)
    =>
    /\ apertureSize.width = config.photoWidth + 2 * config.photoBorder
    /\ apertureSize.height = config.photoHeight + 2 * config.photoBorder
    /\ \A m \in Modes : ComputeApertureSize([config EXCEPT !.mode = m]) = apertureSize
    /\ \A o \in Orientations :
          ComputeApertureSize([config EXCEPT !.orientation = o]) = apertureSize
    /\ \A bp \in GeomPresets :
          ComputeApertureSize([config EXCEPT !.boardPreset = bp]) = apertureSize
    /\ \A cb \in GeomCustomBoards :
          ComputeApertureSize([config EXCEPT !.customBoardSize = cb]) = apertureSize
    /\ \A mb \in GeomManualBorders :
          ComputeApertureSize([config EXCEPT !.manualBorders = mb]) = apertureSize
    /\ \A mo \in GeomOffsets :
          ComputeApertureSize([config EXCEPT !.mountOffset = mo]) = apertureSize
    /\ \A ul \in GeomUnderlaps :
          ComputeApertureSize([config EXCEPT !.underlap = ul]) = apertureSize

C1_Witness ==
    /\ phase = "aperture"
    /\ config.mode = "CustomBorders"
    /\ config.orientation = "landscape"
    /\ config.photoBorder > 0
    /\ apertureSize = [width |-> Dec(2159, 10), height |-> Dec(2667, 10)]

\* C2: in FixedBoard mode with mountOffset = 0 the aperture is exactly
\* centered on both axes, whatever the board source (preset, unrecognised
\* preset, Custom), photo size and photo border.
C2_Centered ==
    (phase = "rendered" /\ config.mode = "FixedBoard" /\ config.mountOffset = 0)
    =>
    /\ aperturePosition.x = boardSize.width - aperturePosition.x - apertureSize.width
    /\ aperturePosition.y = boardSize.height - aperturePosition.y - apertureSize.height

C2_Witness ==
    /\ phase = "rendered"
    /\ config.mode = "FixedBoard"
    /\ config.mountOffset = 0
    /\ config.boardPreset = "B5"
    /\ config.photoBorder > 0
    /\ aperturePosition.x < 0
    /\ aperturePosition.y > 0

\* C3: in FixedBoard mode with mountOffset = k > 0 the top margin is k smaller
\* and the bottom margin k larger than with mountOffset = 0 and everything
\* else equal, so the bottom margin exceeds the top margin by exactly 2k; aX
\* and the board size are those of mountOffset = 0.
C3_WeightedBottom ==
    (phase = "rendered" /\ config.mode = "FixedBoard" /\ config.mountOffset > 0)
    =>
    LET k == config.mountOffset
        zero == ComputeBoard([config EXCEPT !.mountOffset = 0], apertureSize)
        top0 == zero.aperturePosition.y
        bottom0 == zero.boardSize.height - zero.aperturePosition.y - apertureSize.height
    IN  /\ TopMargin = top0 - k
        /\ BottomMargin = bottom0 + k
        /\ BottomMargin - TopMargin = 2 * k
        /\ aperturePosition.x = zero.aperturePosition.x
        /\ boardSize = zero.boardSize

C3_Witness ==
    /\ phase = "rendered"
    /\ config.mode = "FixedBoard"
    /\ config.mountOffset = Dec(762, 100)
    /\ config.boardPreset = "A2"
    /\ config.orientation = "portrait"
    /\ TopMargin = Dec(15603, 100)
    /\ BottomMargin = Dec(17127, 100)

\* C4: in CustomBorders mode the board is the aperture plus the manual borders
\* on each axis and the aperture sits at (left, top); an aperture of
\* 215.9 x 266.7 with borders top 50, bottom 60, left 45, right 45 gives a
\* board of 305.9 x 376.7 with aX = 45 and aY = 50.
C4_Example ==
    /\ apertureSize = [width |-> Dec(2159, 10), height |-> Dec(2667, 10)]
    /\ config.manualBorders = [top |-> Dec(50, 1), bottom |-> Dec(60, 1),
                               left |-> Dec(45, 1), right |-> Dec(45, 1)]

C4_CustomBorders ==
    (phase = "rendered" /\ config.mode = "CustomBorders")
    =>
    /\ boardSize.width =
          apertureSize.width + config.manualBorders.left + config.manualBorders.right
    /\ boardSize.height =
          apertureSize.height + config.manualBorders.top + config.manualBorders.bottom
    /\ aperturePosition.x = config.manualBorders.left
    /\ aperturePosition.y = config.manualBorders.top
    /\ C4_Example =>
          /\ boardSize = [width |-> Dec(3059, 10), height |-> Dec(3767, 10)]
          /\ aperturePosition = [x |-> Dec(45, 1), y |-> Dec(50, 1)]

C4_Witness ==
    /\ phase = "rendered"
    /\ config.mode = "CustomBorders"
    /\ C4_Example
    /\ boardSize = [width |-> Dec(3059, 10), height |-> Dec(3767, 10)]

\* The record of the paper-size table a name stands for.
PaperRecord(name) == CHOOSE r \in {PAPER_SIZES[i] : i \in 1..Len(PAPER_SIZES)} : r.name = name

\* C6: in FixedBoard mode with boardPreset naming a record of the paper-size
\* table, the board is min(w,h) wide and max(w,h) high in portrait and
\* max(w,h) wide and min(w,h) high in landscape, so it is never wider than high
\* in portrait nor higher than wide in landscape; A4 portrait is 210 x 297.
C6_PresetOrientation ==
    (phase = "rendered" /\ config.mode = "FixedBoard" /\ IsPreset(config.boardPreset))
    =>
    LET r == PaperRecord(config.boardPreset)
        small == IF r.width <= r.height THEN r.width ELSE r.height
        large == IF r.width <= r.height THEN r.height ELSE r.width
    IN  /\ config.orientation = "portrait" =>
              /\ boardSize = [width |-> small, height |-> large]
              /\ boardSize.width <= boardSize.height
        /\ config.orientation = "landscape" =>
              /\ boardSize = [width |-> large, height |-> small]
              /\ boardSize.width >= boardSize.height
        /\ (config.boardPreset = "A4" /\ config.orientation = "portrait") =>
              boardSize = [width |-> Dec(210, 1), height |-> Dec(297, 1)]

C6_Witness ==
    /\ phase = "rendered"
    /\ config.mode = "FixedBoard"
    /\ config.boardPreset = "Tabloid"
    /\ config.orientation = "landscape"
    /\ boardSize = [width |-> Dec(4318, 10), height |-> Dec(2794, 10)]

\* C7: in FixedBoard mode with a boardPreset that is neither "Custom" nor the
\* exact name of a table record, the board is the 420 x 594 default, oriented
\* like a preset (594 x 420 in landscape), and customBoardSize is not used.
C7_Fallback ==
    (/\ phase = "rendered"
     /\ config.mode = "FixedBoard"
     /\ config.boardPreset # "Custom"
     /\ ~IsPreset(config.boardPreset))
    =>
    /\ config.orientation = "portrait" =>
          boardSize = [width |-> Dec(420, 1), height |-> Dec(594, 1)]
    /\ config.orientation = "landscape" =>
          boardSize = [width |-> Dec(594, 1), height |-> Dec(420, 1)]
    /\ \A cb \in GeomCustomBoards :
          ComputeBoard([config EXCEPT !.customBoardSize = cb], apertureSize).boardSize
             = boardSize

C7_Witness ==
    /\ phase = "rendered"
    /\ config.mode = "FixedBoard"
    /\ config.boardPreset = "a4"
    /\ config.orientation = "landscape"
    /\ config.customBoardSize = [width |-> Dec(100, 1), height |-> Dec(150, 1)]
    /\ boardSize = [width |-> Dec(594, 1), height |-> Dec(420, 1)]

\* C8: in FixedBoard mode with boardPreset = "Custom" the board is the stored
\* customBoardSize exactly, with no min/max swap by the orientation flag.
C8_CustomBoard ==
    (phase = "rendered" /\ config.mode = "FixedBoard" /\ config.boardPreset = "Custom")
    =>
    /\ boardSize.width = config.customBoardSize.width
    /\ boardSize.height = config.customBoardSize.height

\* ... so the board can be wider than high in portrait.
C8_Witness ==
    /\ phase = "rendered"
    /\ config.mode = "FixedBoard"
    /\ config.boardPreset = "Custom"
    /\ config.orientation = "portrait"
    /\ config.customBoardSize = [width |-> Dec(594, 1), height |-> Dec(420, 1)]
    /\ boardSize.width > boardSize.height

\* Paper-size tables other than the program's: none, one that names a record
\* "Custom", and the program's with A2 and A4 redefined.
OtherTables ==
    { << >>,
      << [name |-> "Custom", width |-> Dec(10, 1), height |-> Dec(20, 1)] >>,
      << [name |-> "A2", width |-> Dec(1, 1), height |-> Dec(2, 1)],
         [name |-> "A4", width |-> Dec(3, 1), height |-> Dec(4, 1)] >> }

Geometry == [boardSize |-> boardSize, aperturePosition |-> aperturePosition]

\* C10: one source decides the board.  In CustomBorders mode board size and
\* aperture position do not change with boardPreset, customBoardSize, the
\* orientation flag or mountOffset; in FixedBoard mode with "Custom" they do
\* not change with manualBorders or the paper-size table; in FixedBoard mode
\* with another boardPreset they do not change with manualBorders or
\* customBoardSize.
C10_OneSource ==
    phase = "rendered" =>
    /\ config.mode = "CustomBorders" =>
          /\ \A bp \in GeomPresets :
                ComputeBoard([config EXCEPT !.boardPreset = bp], apertureSize) = Geometry
          /\ \A cb \in GeomCustomBoards :
                ComputeBoard([config EXCEPT !.customBoardSize = cb], apertureSize) = Geometry
          /\ \A o \in Orientations :
                ComputeBoard([config EXCEPT !.orientation = o], apertureSize) = Geometry
          /\ \A mo \in GeomOffsets :
                ComputeBoard([config EXCEPT !.mountOffset = mo], apertureSize) = Geometry
    /\ (config.mode = "FixedBoard" /\ config.boardPreset = "Custom") =>
          /\ \A mb \in GeomManualBorders :
                ComputeBoard([config EXCEPT !.manualBorders = mb], apertureSize) = Geometry
          /\ \A table \in OtherTables :
                ComputeBoardWith(config, apertureSize, table) = Geometry
    /\ (config.mode = "FixedBoard" /\ config.boardPreset # "Custom") =>
          /\ \A mb \in GeomManualBorders :
                ComputeBoard([config EXCEPT !.manualBorders = mb], apertureSize) = Geometry
          /\ \A cb \in GeomCustomBoards :
                ComputeBoard([config EXCEPT !.customBoardSize = cb], apertureSize) = Geometry

C10_Witness ==
    /\ phase = "rendered"
    /\ config.mode = "CustomBorders"
    /\ config.boardPreset = "Custom"
    /\ config.mountOffset > 0
    /\ config.orientation = "landscape"
    /\ boardSize.width # config.customBoardSize.width
    /\ aperturePosition.y = config.manualBorders.top

----------------------------------------------------------------------------
(* Properties of the running App (checked under Spec) *)

\* C5: the orientation toggle is involutive: whenever toggleOrientation has
\* run, running it once more gives back the photoWidth, photoHeight,
\* customBoardSize and orientation of before the first toggle, and with them
\* the board size, aperture size and aperture position rendered before it.
C5_ToggleInvolutive ==
    [][ ToggleOrientation =>
          LET back == toggleOrientation(config')
          IN  /\ back.photoWidth = config.photoWidth
              /\ back.photoHeight = config.photoHeight
              /\ back.customBoardSize = config.customBoardSize
              /\ back.orientation = config.orientation
              /\ Render(back) = [ apertureSize |-> apertureSize,
                                  boardSize |-> boardSize,
                                  aperturePosition |-> aperturePosition ] ]_vars

\* A toggled config whose swaps are visible: an 8x10 photo lying on its side
\* and a custom board that is not square.
C5_Witness ==
    /\ config.orientation = "landscape"
    /\ config.photoWidth = Dec(254, 1)
    /\ config.photoHeight = Dec(2032, 10)
    /\ config.customBoardSize = [width |-> Dec(594, 1), height |-> Dec(420, 1)]
    /\ config.boardPreset = "Custom"
    /\ boardSize.width > boardSize.height

\* C9: the startup config (photo 203.2 x 254, photoBorder 6.35, mountOffset
\* 7.62, FixedBoard, A2, portrait) renders as aperture 215.9 x 266.7, board
\* 420 x 594, aX = 102.05, aY = 156.03.
C9_StartupFields ==
    /\ config.photoWidth = Dec(2032, 10)
    /\ config.photoHeight = Dec(254, 1)
    /\ config.photoBorder = Dec(635, 100)
    /\ config.mountOffset = Dec(762, 100)
    /\ config.mode = "FixedBoard"
    /\ config.boardPreset = "A2"
    /\ config.orientation = "portrait"

C9_Startup ==
    C9_StartupFields =>
    /\ apertureSize = [width |-> Dec(2159, 10), height |-> Dec(2667, 10)]
    /\ boardSize = [width |-> Dec(420, 1), height |-> Dec(594, 1)]
    /\ aperturePosition = [x |-> Dec(10205, 100), y |-> Dec(15603, 100)]

C9_Witness ==
    /\ config = DefaultConfig
    /\ unit = DefaultUnit
    /\ edits = 0
    /\ C9_StartupFields
    /\ aperturePosition.y = Dec(15603, 100)

\* C11: the unit is display-only: a step that changes the unit leaves every
\* field of the config and the rendered board size, aperture size and aperture
\* position unchanged; a number typed into an input while the unit is inch is
\* stored as that number times 25.4 (mm), in that input's field alone.
TypedCommit == CommitField \/ CommitCustomBoard \/ CommitManualBorder

C11_UnitDisplayOnly ==
    [][ /\ unit' # unit =>
              /\ config' = config
              /\ apertureSize' = apertureSize
              /\ boardSize' = boardSize
              /\ aperturePosition' = aperturePosition
        /\ (TypedCommit /\ unit = "inch" /\ config' # config) =>
              \E f \in InputFields, t \in DOMAIN Parsed :
                 /\ Shown(config, f)
                 /\ FieldValue(config', f) * 10 = Parsed[t] * 254
                 /\ \A g \in InputFields \ {f} :
                       FieldValue(config', g) = FieldValue(config, g) ]_vars

\* 0.3 typed into Photo Border while the unit was inch, then the unit switched.
C11_Witness ==
    /\ unit = "mm"
    /\ edits = 1
    /\ config.photoBorder = Dec(762, 100)
    /\ config = [DefaultConfig EXCEPT !.photoBorder = Dec(762, 100)]
    /\ apertureSize.width = Dec(2032, 10) + 2 * Dec(762, 100)

\* The board a fresh lookup of a table name gives for an orientation.
FreshPresetBoard(name, orientation) ==
    LET r == PaperRecord(name)
        small == IF r.width <= r.height THEN r.width ELSE r.height
        large == IF r.width <= r.height THEN r.height ELSE r.width
    IN  IF orientation = "landscape"
        THEN [width |-> large, height |-> small]
        ELSE [width |-> small, height |-> large]

\* C12: preset boards never drift: whatever toggles, edits, mode switches and
\* unit switches came before, in FixedBoard mode with a boardPreset other than
\* "Custom" the board is the one a fresh lookup of that preset gives for the
\* current orientation.
C12_PresetNeverDrifts ==
    (config.mode = "FixedBoard" /\ config.boardPreset # "Custom")
    => boardSize = FreshPresetBoard(config.boardPreset, config.orientation)

C12_Witness ==
    /\ config.mode = "FixedBoard"
    /\ config.boardPreset = "Legal"
    /\ config.orientation = "landscape"
    /\ unit = "mm"
    /\ edits = 1
    /\ config.customBoardSize.width = Dec(3, 10)
    /\ boardSize = [width |-> Dec(3556, 10), height |-> Dec(2159, 10)]

\* C13: toggleOrientation flips the orientation flag, swaps photoWidth with
\* photoHeight and customBoardSize.width with customBoardSize.height, and
\* leaves photoBorder, underlap, mountOffset, minBorderWidth, boardPreset, mode
\* and manualBorders as they were.
C13_ToggleFrame ==
    [][ ToggleOrientation =>
          /\ config'.orientation # config.orientation
          /\ config'.orientation \in Orientations
          /\ config'.photoWidth = config.photoHeight
          /\ config'.photoHeight = config.photoWidth
          /\ config'.customBoardSize.width = config.customBoardSize.height
          /\ config'.customBoardSize.height = config.customBoardSize.width
          /\ config'.photoBorder = config.photoBorder
          /\ config'.underlap = config.underlap
          /\ config'.mountOffset = config.mountOffset
          /\ config'.minBorderWidth = config.minBorderWidth
          /\ config'.boardPreset = config.boardPreset
          /\ config'.mode = config.mode
          /\ config'.manualBorders = config.manualBorders ]_vars

\* A toggled config whose manual borders are not all equal.
C13_Witness ==
    /\ config.orientation = "landscape"
    /\ config.photoWidth = Dec(254, 1)
    /\ config.photoHeight = Dec(2032, 10)
    /\ config.mode = "CustomBorders"
    /\ config.manualBorders = [top |-> Dec(762, 100), bottom |-> Dec(50, 1),
                               left |-> Dec(50, 1), right |-> Dec(50, 1)]

\* C17: committing an input whose text was not edited leaves the stored value
\* unchanged, in either unit.
C17_UneditedBlurKeepsValue ==
    [][ BlurUnedited => config' = config ]_vars

----------------------------------------------------------------------------
(* Further properties of the calculator (checked under GeomSpec) *)

\* C14: the calculation is total and unclamped: every config is rendered, and
\* in FixedBoard mode aX = (boardWidth - apertureWidth) / 2 and
\* aY = (boardHeight - apertureHeight) / 2 - mountOffset also when the aperture
\* is larger than the board or mountOffset exceeds the centered top margin, so
\* that the values are negative.
C14_TotalUnclamped ==
    /\ phase # "rendered" => ENABLED GeomNext
    /\ (phase = "rendered" /\ config.mode = "FixedBoard") =>
          /\ 2 * aperturePosition.x = boardSize.width - apertureSize.width
          /\ 2 * (aperturePosition.y + config.mountOffset)
                = boardSize.height - apertureSize.height

\* An aperture wider than the board, and a mountOffset larger than the
\* centered top margin of an aperture that fits the board's height.
C14_Witness ==
    /\ phase = "rendered"
    /\ config.mode = "FixedBoard"
    /\ apertureSize.width > boardSize.width
    /\ apertureSize.height <= boardSize.height
    /\ 2 * config.mountOffset > boardSize.height - apertureSize.height
    /\ aperturePosition.x < 0
    /\ aperturePosition.y < 0

----------------------------------------------------------------------------
(* Further properties of the running App (checked under Spec) *)

Transposed(d) == [width |-> d.height, height |-> d.width]

UnrecognisedPresets == {"B5", "a4"}

\* Toggling a FixedBoard config with an unrecognised preset transposes its
\* board and aperture.
ToggleTransposesUnrecognised ==
    \A bp \in UnrecognisedPresets :
       LET c == [config EXCEPT !.mode = "FixedBoard", !.boardPreset = bp]
           before == Render(c)
           after == Render(toggleOrientation(c))
       IN  /\ after.apertureSize = Transposed(before.apertureSize)
           /\ after.boardSize = Transposed(before.boardSize)

\* C18 as claimed: in both modes toggling the orientation transposes the board
\* size and the aperture size.
C18_ToggleTransposes ==
    [][ ToggleOrientation =>
          /\ apertureSize' = Transposed(apertureSize)
          /\ boardSize' = Transposed(boardSize)
          /\ ToggleTransposesUnrecognised ]_vars

\* C18 as amended: toggling the orientation transposes the aperture size in
\* both modes and the board size in FixedBoard mode (preset, unrecognised
\* preset or Custom); in CustomBorders mode the board after the toggle is the
\* transposed aperture plus the unchanged manual borders, which is the
\* transpose of the board before exactly when left + right = top + bottom.
C18_ToggleTransposesFixedBoard ==
    [][ ToggleOrientation =>
          LET mb == config.manualBorders
          IN  /\ apertureSize' = Transposed(apertureSize)
              /\ config.mode = "FixedBoard" => boardSize' = Transposed(boardSize)
              /\ config.mode = "CustomBorders" =>
                    /\ boardSize' = [ width  |-> apertureSize.height + mb.left + mb.right,
                                      height |-> apertureSize.width + mb.top + mb.bottom ]
                    /\ (boardSize' = Transposed(boardSize))
                          <=> (mb.left + mb.right = mb.top + mb.bottom)
              /\ ToggleTransposesUnrecognised ]_vars

\* A toggled CustomBorders config whose side borders differ from its top and
\* bottom borders.
C18_Witness ==
    /\ config.orientation = "landscape"
    /\ config.mode = "CustomBorders"
    /\ config.manualBorders.left = Dec(762, 100)
    /\ apertureSize = [width |-> Dec(2667, 10), height |-> Dec(2159, 10)]
    /\ boardSize = [ width  |-> Dec(2667, 10) + Dec(762, 100) + Dec(50, 1),
                     height |-> Dec(2159, 10) + Dec(100, 1) ]

\* C19: selecting a photo size preset sets photoWidth and photoHeight to the
\* preset's two dimensions, the smaller as the width in portrait and the
\* larger as the width in landscape, and changes no other field; selecting the
\* empty "Custom" entry changes nothing.
C19_PhotoPreset ==
    /\ selectPhotoPreset(config, "") = config
    /\ \A i \in 1..Len(COMMON_PHOTO_SIZES) :
          LET s == COMMON_PHOTO_SIZES[i]
              small == IF s.width <= s.height THEN s.width ELSE s.height
              large == IF s.width <= s.height THEN s.height ELSE s.width
              after == selectPhotoPreset(config, s.name)
          IN  /\ config.orientation = "portrait" =>
                    /\ after = [config EXCEPT !.photoWidth = small, !.photoHeight = large]
                    /\ after.photoWidth <= after.photoHeight
              /\ config.orientation = "landscape" =>
                    /\ after = [config EXCEPT !.photoWidth = large, !.photoHeight = small]
                    /\ after.photoWidth >= after.photoHeight

\* A3 selected while the orientation was landscape.
C19_Witness ==
    /\ config.orientation = "landscape"
    /\ config.photoWidth = Dec(420, 1)
    /\ config.photoHeight = Dec(297, 1)
    /\ edits = 1
    /\ apertureSize.width = Dec(420, 1) + 2 * config.photoBorder

----------------------------------------------------------------------------
(* Properties of the advisor (checked under AdvisorSpec) *)

WithoutSuggestedValues(response) ==
    /\ response.status = "resolved"
    /\ \/ response.text.kind = "empty"
       \/ /\ response.text.kind = "json"
          /\ response.text.value.suggestedValues = Undefined

\* Every call of getMountAdvice without an API key, or answered without
\* suggestedValues, throws.
FailuresThrow ==
    \A apiKey \in ApiKeys, response \in Responses :
       (~apiKey \/ WithoutSuggestedValues(response)) =>
          getMountAdvice(advisor.description, config, unit, apiKey, response).threw

\* C15: a failed advisory request (no API key, or a response without
\* suggestedValues) makes getMountAdvice throw, and the step in which
\* handleAskAI resumes from the rejected promise leaves config and the
\* geometry computed from it unchanged, keeps the advice it had, sets the
\* generic error notice and ends with loading = false.
C15_FailedRequestKeepsGeometry ==
    [][ /\ FailuresThrow
        /\ (request.state = "pending" /\ request'.state = "rejected") =>
              /\ config' = config
              /\ apertureSize' = apertureSize
              /\ Geometry' = Geometry
              /\ unit' = unit
              /\ advisor'.error = FailureNotice
              /\ advisor'.advice = advisor.advice
              /\ advisor'.description = advisor.description
              /\ advisor'.loading = FALSE ]_vars

\* A request made without an API key has been rejected and handled, after the
\* host changed to landscape.
C15_Witness ==
    /\ request = [state |-> "rejected", error |-> "API Key not found"]
    /\ advisor.error = FailureNotice
    /\ advisor.advice = Null
    /\ ~advisor.loading
    /\ config.orientation = "landscape"

\* The config the suggestion would give when overlaid on the existing one.
Overlay(prev, suggestedConfig) ==
    [prev EXCEPT !.photoBorder = suggestedConfig.photoBorder,
                 !.mountOffset = suggestedConfig.mountOffset,
                 !.manualBorders = suggestedConfig.manualBorders,
                 !.mode = "CustomBorders"]

\* C16: whenever the advisor holds a successful result, its suggestedConfig
\* has mode CustomBorders and applying it gives the existing config overlaid
\* with the suggested photoBorder, mountOffset and four manualBorders and with
\* mode forced to CustomBorders.
C16_SuggestionAppliedWholesale ==
    advisor.advice # Null =>
       /\ advisor.advice.suggestedConfig # Undefined
       /\ advisor.advice.suggestedConfig.mode = "CustomBorders"
       /\ onApplySuggestion(config, advisor.advice.suggestedConfig)
             = Overlay(config, advisor.advice.suggestedConfig)

====
